---- MODULE Spec2Model ----
(***************************************************************************)
(* Hotel reservation system (src/A6.2/hotel_system.py).                    *)
(*                                                                         *)
(* The state is one Storage instance (three dictionaries keyed by          *)
(* identifier) and the three JSON documents it is loaded from and saved    *)
(* to.  Every service method is an operator from a store to a result and a *)
(* store, so that a method that calls another one (create_reservation      *)
(* calls reserve_room, which calls save_all) is composed as in the code.   *)
(***************************************************************************)
EXTENDS Integers, Sequences, FiniteSets, TLC

VARIABLES hotels, customers, reservations, disk, last, undo, calls, pending

vars == <<hotels, customers, reservations, disk, last, undo, calls, pending>>

(***************************************************************************)
(* Bounds of the model and the inputs the callers draw from.               *)
(***************************************************************************)
MaxRooms == 2

HotelIds == {"H1"}
CustomerIds == {"C1"}
ReservationIds == {"R1", "R2"}
HotelNames == {"Test Hotel", "Updated"}
CustomerNames == {"Juan", "Ana"}
Emails == {"juan@email.com"}
\* room counts given to Hotel(...) and modify_hotel
RoomCounts == 1..MaxRooms
\* room numbers given to reserve_room, cancel_room and Reservation(...):
\* MaxRooms + 1 is above every room count
RoomNumbers == 1..(MaxRooms + 1)

(***************************************************************************)
(* Python values.                                                          *)
(***************************************************************************)
\* a dict with no entry: {}
EmptyDict == <<>>

\* d[k] = v
dict_set(d, k, v) == [x \in (DOMAIN d) \cup {k} |-> IF x = k THEN v ELSE d[x]]

\* d.pop(k, None) and del d[k]
dict_pop(d, k) == [x \in (DOMAIN d) \ {k} |-> d[x]]

\* x in list
list_contains(s, x) == \E i \in 1..Len(s) : s[i] = x

\* list.append(x)
list_append(s, x) == Append(s, x)

\* list.remove(x): removes the first occurrence of x
list_remove(s, x) ==
    LET i == CHOOSE j \in 1..Len(s) : s[j] = x /\ \A k \in 1..(j - 1) : s[k] # x
    IN  [k \in 1..(Len(s) - 1) |-> IF k < i THEN s[k] ELSE s[k + 1]]

(***************************************************************************)
(* Entities and their document form.                                       *)
(***************************************************************************)
Hotel(hotel_id, name, rooms) ==
    [hotel_id |-> hotel_id, name |-> name, rooms |-> rooms, reserved_rooms |-> <<>>]

Hotel_to_dict(h) ==
    [hotel_id |-> h.hotel_id, name |-> h.name, rooms |-> h.rooms,
     reserved_rooms |-> h.reserved_rooms]

\* from_dict without line 66: the reserved list is not read back
Hotel_from_dict_NoReserved(data) ==
    Hotel(data["hotel_id"], data["name"], data["rooms"])

Hotel_from_dict(data) ==
    LET hotel == Hotel(data["hotel_id"], data["name"], data["rooms"])
    IN  [hotel EXCEPT !.reserved_rooms =
            IF "reserved_rooms" \in DOMAIN data THEN data["reserved_rooms"] ELSE <<>>]

Customer(customer_id, name, email) ==
    [customer_id |-> customer_id, name |-> name, email |-> email]

Customer_to_dict(c) ==
    [customer_id |-> c.customer_id, name |-> c.name, email |-> c.email]

Customer_from_dict(data) ==
    Customer(data["customer_id"], data["name"], data["email"])

Reservation(reservation_id, customer_id, hotel_id, room_number) ==
    [reservation_id |-> reservation_id, customer_id |-> customer_id,
     hotel_id |-> hotel_id, room_number |-> room_number]

Reservation_to_dict(r) ==
    [reservation_id |-> r.reservation_id, customer_id |-> r.customer_id,
     hotel_id |-> r.hotel_id, room_number |-> r.room_number]

Reservation_from_dict(data) ==
    Reservation(data["reservation_id"], data["customer_id"],
                data["hotel_id"], data["room_number"])

(***************************************************************************)
(* The documents.  A file is missing, or holds a JSON object, or holds     *)
(* text that is no JSON.  Identifiers are strings, so json.dump keeps the  *)
(* keys, and the values (strings, integers, lists of integers) are read    *)
(* back as written.  Writes succeed here: save_json's OSError branch is    *)
(* not taken.                                                              *)
(***************************************************************************)
HOTELS_FILE == "hotels.json"
CUSTOMERS_FILE == "customers.json"
RESERVATIONS_FILE == "reservations.json"
Files == {HOTELS_FILE, CUSTOMERS_FILE, RESERVATIONS_FILE}

MissingFile == [state |-> "missing", value |-> EmptyDict]
JsonFile(data) == [state |-> "json", value |-> data]
\* text that json.load refuses, as "{ invalid json"
MalformedFile == [state |-> "malformed", value |-> EmptyDict]
\* text that json.load reads as a list, as "[]"
JsonArrayFile == [state |-> "json_array", value |-> <<>>]

load_json(d, path) ==
    IF d[path].state = "missing" THEN EmptyDict
    ELSE IF d[path].state \in {"json", "json_array"} THEN d[path].value
    ELSE EmptyDict

\* load_json without the except clause of lines 30-32
load_json_raises_NoCatch(d, path) == d[path].state = "malformed"

\* load_json raises nothing: JSONDecodeError and OSError are caught
load_json_raises(d, path) == FALSE

\* a directory at the path of a document: open(path, "w") raises
\* IsADirectoryError, an OSError, and so does open(path, "r")
DirectoryFile == [state |-> "directory", value |-> EmptyDict]

\* lines 37-41: the OSError of a write that fails is caught and printed, the
\* path stays as it was
save_json(d, path, data) ==
    IF d[path].state = "directory" THEN d
    ELSE [d EXCEPT ![path] = JsonFile(data)]

(***************************************************************************)
(* Storage.  A store is the three dictionaries and the documents.          *)
(***************************************************************************)
\* data["hotel_id"], data["name"], data["rooms"]: KeyError when one is missing
Hotel_from_dict_raises(data) ==
    ~({"hotel_id", "name", "rooms"} \subseteq DOMAIN data)

Customer_from_dict_raises(data) ==
    ~({"customer_id", "name", "email"} \subseteq DOMAIN data)

Reservation_from_dict_raises(data) ==
    ~({"reservation_id", "customer_id", "hotel_id", "room_number"} \subseteq DOMAIN data)

\* raw.items(): AttributeError when raw is a list
items_raises(d, path) == d[path].state = "json_array"

_load_hotels_raises(d) ==
    \/ load_json_raises(d, HOTELS_FILE)
    \/ items_raises(d, HOTELS_FILE)
    \/ LET raw == load_json(d, HOTELS_FILE)
       IN  \E k \in DOMAIN raw : Hotel_from_dict_raises(raw[k])

_load_customers_raises(d) ==
    \/ load_json_raises(d, CUSTOMERS_FILE)
    \/ items_raises(d, CUSTOMERS_FILE)
    \/ LET raw == load_json(d, CUSTOMERS_FILE)
       IN  \E k \in DOMAIN raw : Customer_from_dict_raises(raw[k])

_load_reservations_raises(d) ==
    \/ load_json_raises(d, RESERVATIONS_FILE)
    \/ items_raises(d, RESERVATIONS_FILE)
    \/ LET raw == load_json(d, RESERVATIONS_FILE)
       IN  \E k \in DOMAIN raw : Reservation_from_dict_raises(raw[k])

\* Storage() raises when one of its three loads does
Storage_raises(d) ==
    _load_hotels_raises(d) \/ _load_customers_raises(d) \/ _load_reservations_raises(d)

_load_hotels(d) ==
    LET raw == load_json(d, HOTELS_FILE)
    IN  [k \in DOMAIN raw |-> Hotel_from_dict(raw[k])]

_load_customers(d) ==
    LET raw == load_json(d, CUSTOMERS_FILE)
    IN  [k \in DOMAIN raw |-> Customer_from_dict(raw[k])]

_load_reservations(d) ==
    LET raw == load_json(d, RESERVATIONS_FILE)
    IN  [k \in DOMAIN raw |-> Reservation_from_dict(raw[k])]

Storage(d) ==
    [hotels |-> _load_hotels(d), customers |-> _load_customers(d),
     reservations |-> _load_reservations(d), disk |-> d]

\* save_hotel that reads the collection back when the write has failed
save_hotel_Reload(st) ==
    IF st.disk[HOTELS_FILE].state = "directory"
    THEN [st EXCEPT !.hotels = _load_hotels(st.disk)]
    ELSE [st EXCEPT !.disk = save_json(st.disk, HOTELS_FILE,
             [k \in DOMAIN st.hotels |-> Hotel_to_dict(st.hotels[k])])]

save_hotel(st) ==
    [st EXCEPT !.disk = save_json(st.disk, HOTELS_FILE,
        [k \in DOMAIN st.hotels |-> Hotel_to_dict(st.hotels[k])])]

save_customer(st) ==
    [st EXCEPT !.disk = save_json(st.disk, CUSTOMERS_FILE,
        [k \in DOMAIN st.customers |-> Customer_to_dict(st.customers[k])])]

save_reservation(st) ==
    [st EXCEPT !.disk = save_json(st.disk, RESERVATIONS_FILE,
        [k \in DOMAIN st.reservations |-> Reservation_to_dict(st.reservations[k])])]

\* save_all that writes the hotels document alone
save_all_HotelsOnly(st) == save_hotel(st)

save_all(st) == save_reservation(save_customer(save_hotel(st)))

(***************************************************************************)
(* A method's outcome: what it returns and the store it leaves.            *)
(***************************************************************************)
Ret(result, st) == [result |-> result, st |-> st]

(***************************************************************************)
(* HotelService                                                            *)
(***************************************************************************)
\* create_hotel that keeps the reserved list of the hotel it overwrites
create_hotel_KeepReserved(st, hotel) ==
    Ret("None", save_all([st EXCEPT !.hotels = dict_set(st.hotels, hotel.hotel_id,
            IF hotel.hotel_id \in DOMAIN st.hotels
            THEN [hotel EXCEPT !.reserved_rooms = st.hotels[hotel.hotel_id].reserved_rooms]
            ELSE hotel)]))

create_hotel(st, hotel) ==
    Ret("None", save_all([st EXCEPT !.hotels = dict_set(st.hotels, hotel.hotel_id, hotel)]))

\* delete_hotel that removes the reservations of the hotel with it
delete_hotel_Cascade(st, hotel_id) ==
    Ret("None", save_all([st EXCEPT
        !.hotels = dict_pop(st.hotels, hotel_id),
        !.reservations = [k \in {r \in DOMAIN st.reservations :
                                    st.reservations[r].hotel_id # hotel_id}
                            |-> st.reservations[k]]]))

delete_hotel(st, hotel_id) ==
    Ret("None", save_all([st EXCEPT !.hotels = dict_pop(st.hotels, hotel_id)]))

\* get_hotel: hotel_id \in DOMAIN st.hotels says that it returns a hotel, not None
has_hotel(st, hotel_id) == hotel_id \in DOMAIN st.hotels

\* modify_hotel that stores a new Hotel(hotel_id, name, rooms)
modify_hotel_NewHotel(st, hotel_id, name, rooms) ==
    IF hotel_id \in DOMAIN st.hotels
    THEN Ret("None", save_all([st EXCEPT !.hotels[hotel_id] = Hotel(hotel_id, name, rooms)]))
    ELSE Ret("None", st)

modify_hotel(st, hotel_id, name, rooms) ==
    IF has_hotel(st, hotel_id)
    THEN Ret("None", save_all([st EXCEPT !.hotels[hotel_id].name = name,
                                         !.hotels[hotel_id].rooms = rooms]))
    ELSE Ret("None", st)

\* reserve_room with the lower bound that lines 207-219 do not have
reserve_room_LowerBound(st, hotel_id, room_number) ==
    IF hotel_id \notin DOMAIN st.hotels THEN Ret("False", st)
    ELSE IF list_contains(st.hotels[hotel_id].reserved_rooms, room_number)
         THEN Ret("False", st)
    ELSE IF room_number > st.hotels[hotel_id].rooms \/ room_number < 1
         THEN Ret("False", st)
    ELSE Ret("True", save_all([st EXCEPT !.hotels[hotel_id].reserved_rooms =
                                  list_append(@, room_number)]))

\* reserve_room without lines 212-213: a room already reserved is not refused
reserve_room_NoDuplicateCheck(st, hotel_id, room_number) ==
    IF ~has_hotel(st, hotel_id) THEN Ret("False", st)
    ELSE IF room_number > st.hotels[hotel_id].rooms THEN Ret("False", st)
    ELSE Ret("True", save_all([st EXCEPT !.hotels[hotel_id].reserved_rooms =
                                  list_append(@, room_number)]))

reserve_room(st, hotel_id, room_number) ==
    IF ~has_hotel(st, hotel_id) THEN Ret("False", st)
    ELSE IF list_contains(st.hotels[hotel_id].reserved_rooms, room_number)
         THEN Ret("False", st)
    ELSE IF room_number > st.hotels[hotel_id].rooms THEN Ret("False", st)
    ELSE Ret("True", save_all([st EXCEPT !.hotels[hotel_id].reserved_rooms =
                                  list_append(@, room_number)]))

\* cancel_room that reports success for every room of a known hotel
cancel_room_AlwaysTrue(st, hotel_id, room_number) ==
    IF ~has_hotel(st, hotel_id) THEN Ret("False", st)
    ELSE IF list_contains(st.hotels[hotel_id].reserved_rooms, room_number)
         THEN Ret("True", save_all([st EXCEPT !.hotels[hotel_id].reserved_rooms =
                                       list_remove(@, room_number)]))
    ELSE Ret("True", save_all(st))

cancel_room(st, hotel_id, room_number) ==
    IF ~has_hotel(st, hotel_id) THEN Ret("False", st)
    ELSE IF list_contains(st.hotels[hotel_id].reserved_rooms, room_number)
         THEN Ret("True", save_all([st EXCEPT !.hotels[hotel_id].reserved_rooms =
                                       list_remove(@, room_number)]))
    ELSE Ret("False", st)

(***************************************************************************)
(* CustomerService                                                         *)
(***************************************************************************)
create_customer(st, customer) ==
    Ret("None", save_all([st EXCEPT !.customers =
                             dict_set(st.customers, customer.customer_id, customer)]))

delete_customer(st, customer_id) ==
    Ret("None", save_all([st EXCEPT !.customers = dict_pop(st.customers, customer_id)]))

modify_customer(st, customer_id, name, email) ==
    IF customer_id \in DOMAIN st.customers
    THEN Ret("None", save_all([st EXCEPT !.customers[customer_id].name = name,
                                         !.customers[customer_id].email = email]))
    ELSE Ret("None", st)

(***************************************************************************)
(* ReservationService                                                      *)
(***************************************************************************)
\* create_reservation without lines 283-284: the customer is not looked up
create_reservation_NoCustomerCheck(st, reservation) ==
    LET room == reserve_room(st, reservation.hotel_id, reservation.room_number)
    IN  IF room.result # "True" THEN Ret("False", room.st)
        ELSE Ret("True", save_all([room.st EXCEPT !.reservations =
                   dict_set(room.st.reservations, reservation.reservation_id,
                            reservation)]))

\* create_reservation that stores the record in a fresh dictionary
create_reservation_FreshDict(st, reservation) ==
    IF reservation.customer_id \notin DOMAIN st.customers THEN Ret("False", st)
    ELSE LET room == reserve_room(st, reservation.hotel_id, reservation.room_number)
         IN  IF room.result # "True" THEN Ret("False", room.st)
             ELSE Ret("True", save_all([room.st EXCEPT !.reservations =
                        dict_set(EmptyDict, reservation.reservation_id,
                                 reservation)]))

\* create_reservation that stores the record before it allocates the room
create_reservation_RecordFirst(st, reservation) ==
    IF reservation.customer_id \notin DOMAIN st.customers THEN Ret("False", st)
    ELSE LET stored == save_all([st EXCEPT !.reservations =
                          dict_set(st.reservations, reservation.reservation_id,
                                   reservation)])
             room == reserve_room(stored, reservation.hotel_id, reservation.room_number)
         IN  IF room.result # "True" THEN Ret("False", room.st)
             ELSE Ret("True", room.st)

create_reservation(st, reservation) ==
    IF reservation.customer_id \notin DOMAIN st.customers THEN Ret("False", st)
    ELSE LET room == reserve_room(st, reservation.hotel_id, reservation.room_number)
         IN  IF room.result # "True" THEN Ret("False", room.st)
             ELSE Ret("True", save_all([room.st EXCEPT !.reservations =
                        dict_set(room.st.reservations, reservation.reservation_id,
                                 reservation)]))

\* cancel_reservation that gives up when cancel_room returns False
cancel_reservation_ReleaseRequired(st, reservation_id) ==
    IF reservation_id \notin DOMAIN st.reservations THEN Ret("False", st)
    ELSE LET reservation == st.reservations[reservation_id]
             room == cancel_room(st, reservation.hotel_id, reservation.room_number)
         IN  IF room.result # "True" THEN Ret("False", room.st)
             ELSE Ret("True", save_all([room.st EXCEPT !.reservations =
                        dict_pop(room.st.reservations, reservation_id)]))

\* cancel_reservation without lines 302-304: the room is not released
cancel_reservation_NoRelease(st, reservation_id) ==
    IF reservation_id \notin DOMAIN st.reservations THEN Ret("False", st)
    ELSE Ret("True", save_all([st EXCEPT !.reservations =
                        dict_pop(st.reservations, reservation_id)]))

cancel_reservation(st, reservation_id) ==
    IF reservation_id \notin DOMAIN st.reservations THEN Ret("False", st)
    ELSE LET reservation == st.reservations[reservation_id]
             room == cancel_room(st, reservation.hotel_id, reservation.room_number)
         IN  Ret("True", save_all([room.st EXCEPT !.reservations =
                        dict_pop(room.st.reservations, reservation_id)]))

(***************************************************************************)
(* The state machine.                                                      *)
(***************************************************************************)
\* the store the variables hold
Store == [hotels |-> hotels, customers |-> customers,
          reservations |-> reservations, disk |-> disk]

\* undo: the hotel's reserved list as it was before the call `last` names, when
\* that call is a reserve_room that returned True; NoUndo after any other call
NoUndo == <<>>

\* the threads that call reserve_room at the same time
Threads == {1, 2}

\* calls[t]: how far thread t is in its reserve_room(hotel_id, room_number)
\* (pc), what the call has returned, and what its check of lines 209-215 met:
\* free, the hotel stored with the room not reserved and within the room
\* count; late, the other thread's append of line 217 already done
IdleCall == [pc |-> "idle", hotel_id |-> "", room_number |-> 0,
             result |-> "None", free |-> FALSE, late |-> FALSE]
NoCalls == [t \in Threads |-> IdleCall]

\* pending: the create_reservation or cancel_reservation that has made its
\* call of HotelService and has not yet changed the reservation collection;
\* NoPending between calls
NoPending == [op |-> "none"]

\* a call op(args) ended with outcome `out`
Commit(op, args, out) ==
    /\ hotels' = out.st.hotels
    /\ customers' = out.st.customers
    /\ reservations' = out.st.reservations
    /\ disk' = out.st.disk
    /\ last' = [op |-> op, args |-> args, result |-> out.result]
    /\ UNCHANGED <<calls, pending>>

Init ==
    /\ disk = [f \in Files |-> MissingFile]
    /\ hotels = Storage(disk).hotels
    /\ customers = Storage(disk).customers
    /\ reservations = Storage(disk).reservations
    /\ last = [op |-> "Storage", args |-> <<>>, result |-> "None"]
    /\ undo = NoUndo
    /\ calls = NoCalls
    /\ pending = NoPending

\* a new Storage() over the documents (every test's setUp makes one); when the
\* constructor raises the caller gets no instance and the one it has stays
NewStorage ==
    /\ IF Storage_raises(disk)
       THEN Commit("Storage", <<>>, Ret("Raised", Store))
       ELSE Commit("Storage", <<>>, Ret("None", Storage(disk)))
    /\ undo' = NoUndo

\* what a writer outside the services puts in a document: text that is no
\* JSON (test_invalid_json_file), a JSON list, or a JSON object with an entry
\* that lacks a field
DamagedContents ==
    {MalformedFile, JsonArrayFile,
     JsonFile([k \in {"X1"} |-> [name |-> "Test Hotel"]])}

\* no document is damaged
Undamaged(d) == \A f \in Files : d[f].state \in {"missing", "json"} /\ ~Storage_raises(d)

\* one document is damaged at a time
WriteFile(path, content) ==
    /\ Undamaged(disk)
    /\ disk' = [disk EXCEPT ![path] = content]
    /\ last' = [op |-> "write_file", args |-> <<path, content.state>>, result |-> "None"]
    /\ undo' = NoUndo
    /\ UNCHANGED <<hotels, customers, reservations, calls, pending>>

CreateHotel(hotel_id, name, rooms) ==
    /\ Commit("create_hotel", <<hotel_id, name, rooms>>,
              create_hotel(Store, Hotel(hotel_id, name, rooms)))
    /\ undo' = NoUndo

DeleteHotel(hotel_id) ==
    /\ Commit("delete_hotel", <<hotel_id>>, delete_hotel(Store, hotel_id))
    /\ undo' = NoUndo

ModifyHotel(hotel_id, name, rooms) ==
    /\ Commit("modify_hotel", <<hotel_id, name, rooms>>,
              modify_hotel(Store, hotel_id, name, rooms))
    /\ undo' = NoUndo

ReserveRoom(hotel_id, room_number) ==
    LET out == reserve_room(Store, hotel_id, room_number)
    IN  /\ Commit("reserve_room", <<hotel_id, room_number>>, out)
        /\ undo' = IF out.result = "True"
                   THEN hotels[hotel_id].reserved_rooms
                   ELSE NoUndo

CancelRoom(hotel_id, room_number) ==
    /\ Commit("cancel_room", <<hotel_id, room_number>>,
              cancel_room(Store, hotel_id, room_number))
    /\ undo' = NoUndo

CreateCustomer(customer_id, name, email) ==
    /\ Commit("create_customer", <<customer_id, name, email>>,
              create_customer(Store, Customer(customer_id, name, email)))
    /\ undo' = NoUndo

DeleteCustomer(customer_id) ==
    /\ Commit("delete_customer", <<customer_id>>, delete_customer(Store, customer_id))
    /\ undo' = NoUndo

ModifyCustomer(customer_id, name, email) ==
    /\ Commit("modify_customer", <<customer_id, name, email>>,
              modify_customer(Store, customer_id, name, email))
    /\ undo' = NoUndo

CreateReservation(reservation_id, customer_id, hotel_id, room_number) ==
    /\ Commit("create_reservation",
              <<reservation_id, customer_id, hotel_id, room_number>>,
              create_reservation(Store,
                  Reservation(reservation_id, customer_id, hotel_id, room_number)))
    /\ undo' = NoUndo

CancelReservation(reservation_id) ==
    /\ Commit("cancel_reservation", <<reservation_id>>,
              cancel_reservation(Store, reservation_id))
    /\ undo' = NoUndo

Next ==
    \/ NewStorage
    \/ \E h \in HotelIds, n \in HotelNames, r \in RoomCounts : CreateHotel(h, n, r)
    \/ \E h \in HotelIds : DeleteHotel(h)
    \/ \E h \in HotelIds, n \in HotelNames, r \in RoomCounts : ModifyHotel(h, n, r)
    \/ \E h \in HotelIds, n \in RoomNumbers : ReserveRoom(h, n)
    \/ \E h \in HotelIds, n \in RoomNumbers : CancelRoom(h, n)
    \/ \E c \in CustomerIds, n \in CustomerNames, e \in Emails : CreateCustomer(c, n, e)
    \/ \E c \in CustomerIds : DeleteCustomer(c)
    \/ \E c \in CustomerIds, n \in CustomerNames, e \in Emails : ModifyCustomer(c, n, e)
    \/ \E r \in ReservationIds, c \in CustomerIds, h \in HotelIds, n \in RoomNumbers :
            CreateReservation(r, c, h, n)
    \/ \E r \in ReservationIds : CancelReservation(r)

Spec == Init /\ [][Next]_vars

\* the services, then a writer that damages a document and a Storage() made
\* over it (as test_invalid_json_file does); the run ends with that Storage()
NextLoad ==
    \/ Undamaged(disk) /\ Next
    \/ ~Undamaged(disk) /\ NewStorage
    \/ \E f \in Files, c \in DamagedContents : WriteFile(f, c)

SpecLoad == Init /\ [][NextLoad]_vars

\* line 217, after a check that has not been made again
append_room_IfFree(st, hotel_id, room_number) ==
    IF list_contains(st.hotels[hotel_id].reserved_rooms, room_number) THEN st
    ELSE [st EXCEPT !.hotels[hotel_id].reserved_rooms = list_append(@, room_number)]

\* line 217: hotel.reserved_rooms.append(room_number)
append_room(st, hotel_id, room_number) ==
    [st EXCEPT !.hotels[hotel_id].reserved_rooms = list_append(@, room_number)]

\* thread t enters reserve_room(hotel_id, room_number)
CallReserveRoom(t, hotel_id, room_number) ==
    /\ calls[t].pc = "idle"
    /\ calls' = [calls EXCEPT ![t] = [IdleCall EXCEPT !.pc = "check",
                                                      !.hotel_id = hotel_id,
                                                      !.room_number = room_number]]
    /\ UNCHANGED <<hotels, customers, reservations, disk, last, undo, pending>>

\* the other thread has appended already
Appended(t) ==
    \E u \in Threads \ {t} :
        \/ calls[u].pc \in {"save", "return"}
        \/ calls[u].pc = "done" /\ calls[u].result = "True"

\* lines 209-215: the lookup and the two checks; they read the reserved list
\* once (line 212) and write nothing
CheckRoom(t) ==
    /\ calls[t].pc = "check"
    /\ LET h == calls[t].hotel_id
           n == calls[t].room_number
       IN  IF \/ ~has_hotel(Store, h)
              \/ list_contains(hotels[h].reserved_rooms, n)
              \/ n > hotels[h].rooms
           THEN calls' = [calls EXCEPT ![t].pc = "done", ![t].result = "False",
                                       ![t].free = FALSE, ![t].late = Appended(t)]
           ELSE calls' = [calls EXCEPT ![t].pc = "append",
                                       ![t].free = TRUE, ![t].late = Appended(t)]
    /\ UNCHANGED <<hotels, customers, reservations, disk, last, undo, pending>>

\* line 217
AppendRoom(t) ==
    /\ calls[t].pc = "append"
    /\ hotels' = append_room(Store, calls[t].hotel_id, calls[t].room_number).hotels
    /\ calls' = [calls EXCEPT ![t].pc = "save"]
    /\ UNCHANGED <<customers, reservations, disk, last, undo, pending>>

\* line 218: self.storage.save_all()
SaveAll(t) ==
    /\ calls[t].pc = "save"
    /\ disk' = save_all(Store).disk
    /\ calls' = [calls EXCEPT ![t].pc = "return"]
    /\ UNCHANGED <<hotels, customers, reservations, last, undo, pending>>

\* line 219: return True
ReturnTrue(t) ==
    /\ calls[t].pc = "return"
    /\ calls' = [calls EXCEPT ![t].pc = "done", ![t].result = "True"]
    /\ last' = [op |-> "reserve_room",
                args |-> <<calls[t].hotel_id, calls[t].room_number>>,
                result |-> "True"]
    /\ undo' = NoUndo
    /\ UNCHANGED <<hotels, customers, reservations, disk, pending>>

\* the stores the two calls can start from: no hotel, or one hotel with no
\* room or one room reserved, as a Storage() over saved documents gives
RaceStores ==
    {save_all([hotels |-> EmptyDict, customers |-> EmptyDict,
               reservations |-> EmptyDict, disk |-> [f \in Files |-> MissingFile]])}
    \cup
    {save_all([hotels |-> [k \in {h} |-> [Hotel(h, "Test Hotel", r)
                                            EXCEPT !.reserved_rooms = l]],
               customers |-> EmptyDict, reservations |-> EmptyDict,
               disk |-> [f \in Files |-> MissingFile]]) :
        h \in HotelIds, r \in RoomCounts,
        l \in {<<>>} \cup {<<n>> : n \in RoomCounts}}

InitRace ==
    /\ \E st \in RaceStores :
          /\ disk = st.disk
          /\ hotels = Storage(st.disk).hotels
          /\ customers = Storage(st.disk).customers
          /\ reservations = Storage(st.disk).reservations
    /\ last = [op |-> "Storage", args |-> <<>>, result |-> "None"]
    /\ undo = NoUndo
    /\ calls = NoCalls
    /\ pending = NoPending

\* two threads, one reserve_room each, their lines interleaved in every order
NextRace ==
    \/ \E t \in Threads, h \in HotelIds, n \in RoomNumbers : CallReserveRoom(t, h, n)
    \/ \E t \in Threads : CheckRoom(t)
    \/ \E t \in Threads : AppendRoom(t)
    \/ \E t \in Threads : SaveAll(t)
    \/ \E t \in Threads : ReturnTrue(t)

SpecRace == InitRace /\ [][NextRace]_vars

\* lines 283-288: the customer is looked up and reserve_room called, with its
\* save_all of line 218; a call that goes on to line 290 is pending
BeginCreateReservation(reservation_id, customer_id, hotel_id, room_number) ==
    /\ pending.op = "none"
    /\ LET reservation == Reservation(reservation_id, customer_id, hotel_id, room_number)
           args == <<reservation_id, customer_id, hotel_id, room_number>>
           room == reserve_room(Store, hotel_id, room_number)
       IN  IF customer_id \notin DOMAIN customers
           THEN Commit("create_reservation", args, Ret("False", Store))
           ELSE IF room.result # "True"
           THEN Commit("create_reservation", args, Ret("False", room.st))
           ELSE /\ hotels' = room.st.hotels
                /\ customers' = room.st.customers
                /\ reservations' = room.st.reservations
                /\ disk' = room.st.disk
                /\ pending' = [op |-> "create_reservation", reservation |-> reservation,
                               room |-> room.result]
                /\ UNCHANGED <<last, calls>>
    /\ undo' = NoUndo

\* lines 290-294: the record is stored, save_all called and True returned
EndCreateReservation ==
    /\ pending.op = "create_reservation"
    /\ LET reservation == pending.reservation
           st == save_all([Store EXCEPT !.reservations =
                     dict_set(reservations, reservation.reservation_id, reservation)])
       IN  /\ hotels' = st.hotels
           /\ customers' = st.customers
           /\ reservations' = st.reservations
           /\ disk' = st.disk
           /\ last' = [op |-> "create_reservation",
                       args |-> <<reservation.reservation_id, reservation.customer_id,
                                  reservation.hotel_id, reservation.room_number>>,
                       result |-> "True"]
    /\ pending' = NoPending
    /\ undo' = NoUndo
    /\ UNCHANGED calls

\* lines 298-302: the record is looked up and cancel_room called, with its
\* save_all of line 230 when it releases the room
BeginCancelReservation(reservation_id) ==
    /\ pending.op = "none"
    /\ IF reservation_id \notin DOMAIN reservations
       THEN Commit("cancel_reservation", <<reservation_id>>, Ret("False", Store))
       ELSE LET reservation == reservations[reservation_id]
                room == cancel_room(Store, reservation.hotel_id, reservation.room_number)
            IN  /\ hotels' = room.st.hotels
                /\ customers' = room.st.customers
                /\ reservations' = room.st.reservations
                /\ disk' = room.st.disk
                /\ pending' = [op |-> "cancel_reservation", reservation |-> reservation,
                               room |-> room.result]
                /\ UNCHANGED <<last, calls>>
    /\ undo' = NoUndo

\* lines 306-308: the record is removed, save_all called and True returned
EndCancelReservation ==
    /\ pending.op = "cancel_reservation"
    /\ LET st == save_all([Store EXCEPT !.reservations =
                     dict_pop(reservations, pending.reservation.reservation_id)])
       IN  /\ hotels' = st.hotels
           /\ customers' = st.customers
           /\ reservations' = st.reservations
           /\ disk' = st.disk
           /\ last' = [op |-> "cancel_reservation",
                       args |-> <<pending.reservation.reservation_id>>,
                       result |-> "True"]
    /\ pending' = NoPending
    /\ undo' = NoUndo
    /\ UNCHANGED calls

\* the services, with create_reservation and cancel_reservation in two steps,
\* before and after their call of HotelService
NextSteps ==
    \/ /\ pending.op = "none"
       /\ \/ \E h \in HotelIds, n \in HotelNames, r \in RoomCounts : CreateHotel(h, n, r)
          \/ \E h \in HotelIds : DeleteHotel(h)
          \/ \E c \in CustomerIds, n \in CustomerNames, e \in Emails : CreateCustomer(c, n, e)
    \/ \E r \in ReservationIds, c \in CustomerIds, h \in HotelIds, n \in RoomNumbers :
            BeginCreateReservation(r, c, h, n)
    \/ EndCreateReservation
    \/ \E r \in ReservationIds : BeginCancelReservation(r)
    \/ EndCancelReservation

SpecSteps == Init /\ [][NextSteps]_vars

\* two hotel identifiers, for what an operation on one hotel leaves of the other
TwoHotelIds == {"H1", "H2"}

\* the room numbers asked for where two hotels are stored
TwoHotelRooms == {1, 2}

\* the hotel operations over two hotels, with one customer and one reservation
\* identifier
NextTwoHotels ==
    \/ \E h \in TwoHotelIds, n \in HotelNames, r \in RoomCounts : CreateHotel(h, n, r)
    \/ \E h \in TwoHotelIds : DeleteHotel(h)
    \/ \E h \in TwoHotelIds, n \in HotelNames, r \in RoomCounts : ModifyHotel(h, n, r)
    \/ \E h \in TwoHotelIds, n \in TwoHotelRooms : ReserveRoom(h, n)
    \/ CreateCustomer("C1", "Juan", "juan@email.com")
    \/ \E h \in TwoHotelIds, n \in TwoHotelRooms : CreateReservation("R1", "C1", h, n)

SpecTwoHotels == Init /\ [][NextTwoHotels]_vars

\* room numbers around both ends of 1..rooms; none of the checks of
\* reserve_room stops a number below 1
RoomArguments == {-1, 0, 1, MaxRooms, MaxRooms + 1}

\* the operations of HotelService on one hotel, with room numbers of every sign
NextRooms ==
    \/ \E h \in HotelIds, n \in HotelNames, r \in RoomCounts : CreateHotel(h, n, r)
    \/ \E h \in HotelIds : DeleteHotel(h)
    \/ \E h \in HotelIds, n \in HotelNames, r \in RoomCounts : ModifyHotel(h, n, r)
    \/ \E h \in HotelIds, n \in RoomArguments : ReserveRoom(h, n)
    \/ \E h \in HotelIds, n \in RoomArguments : CancelRoom(h, n)

SpecRooms == Init /\ [][NextRooms]_vars

\* something outside the services puts a directory where a document goes;
\* from then on every write of that document fails
MakeDirectory(path) ==
    /\ disk[path].state # "directory"
    /\ disk' = [disk EXCEPT ![path] = DirectoryFile]
    /\ last' = [op |-> "mkdir", args |-> <<path>>, result |-> "None"]
    /\ undo' = NoUndo
    /\ UNCHANGED <<hotels, customers, reservations, calls, pending>>

\* every mutating operation of the services, over documents whose writes can fail
NextWriteFail ==
    \/ \E f \in Files : MakeDirectory(f)
    \/ \E h \in HotelIds, r \in RoomCounts : CreateHotel(h, "Test Hotel", r)
    \/ \E h \in HotelIds : DeleteHotel(h)
    \/ \E h \in HotelIds, r \in RoomCounts : ModifyHotel(h, "Updated", r)
    \/ \E h \in HotelIds, n \in TwoHotelRooms : ReserveRoom(h, n)
    \/ \E h \in HotelIds, n \in TwoHotelRooms : CancelRoom(h, n)
    \/ \E c \in CustomerIds : CreateCustomer(c, "Juan", "juan@email.com")
    \/ \E c \in CustomerIds : DeleteCustomer(c)
    \/ \E c \in CustomerIds : ModifyCustomer(c, "Ana", "juan@email.com")
    \/ \E c \in CustomerIds, h \in HotelIds, n \in TwoHotelRooms :
            CreateReservation("R1", c, h, n)
    \/ CancelReservation("R1")

SpecWriteFail == Init /\ [][NextWriteFail]_vars

\* the stores with a fixed set of hotels and customers: two hotels with no
\* room reserved, one customer, no reservation, as saved by the services
ReservationStores ==
    {save_all([hotels |-> [h \in TwoHotelIds |-> Hotel(h, "Test Hotel", r)],
               customers |-> [c \in CustomerIds |-> Customer(c, "Juan", "juan@email.com")],
               reservations |-> EmptyDict,
               disk |-> [f \in Files |-> MissingFile]]) : r \in RoomCounts}

InitReservations ==
    /\ \E st \in ReservationStores :
          /\ disk = st.disk
          /\ hotels = Storage(st.disk).hotels
          /\ customers = Storage(st.disk).customers
          /\ reservations = Storage(st.disk).reservations
    /\ last = [op |-> "Storage", args |-> <<>>, result |-> "None"]
    /\ undo = NoUndo
    /\ calls = NoCalls
    /\ pending = NoPending

\* create_reservation and cancel_reservation, and no other call
NextReservations ==
    \/ \E r \in ReservationIds, c \in CustomerIds, h \in TwoHotelIds, n \in RoomNumbers :
            CreateReservation(r, c, h, n)
    \/ \E r \in ReservationIds : CancelReservation(r)

SpecReservations == InitReservations /\ [][NextReservations]_vars

(***************************************************************************)
(* Properties.                                                             *)
(***************************************************************************)
\* the in-memory collections, without the documents
Collections == <<hotels, customers, reservations>>

\* room n is in the reserved list of hotel h
Reserved(h, n) == h \in DOMAIN hotels /\ list_contains(hotels[h].reserved_rooms, n)

\* C1: no two reservation records with different identifiers reference the
\* same hotel identifier and the same room number.
C1_NoDoubleBookedRoom ==
    \A r1 \in DOMAIN reservations : \A r2 \in DOMAIN reservations :
        r1 # r2 =>
            ~(/\ reservations[r1].hotel_id = reservations[r2].hotel_id
              /\ reservations[r1].room_number = reservations[r2].room_number)

\* C2: every room number in a hotel's reserved list is at most the hotel's
\* current room count.
C2_ReservedWithinRoomCount ==
    \A h \in DOMAIN hotels :
        \A i \in 1..Len(hotels[h].reserved_rooms) :
            hotels[h].reserved_rooms[i] <= hotels[h].rooms

\* C3: the room numbers in each hotel's reserved list are pairwise distinct.
C3_ReservedRoomsDistinct ==
    \A h \in DOMAIN hotels :
        \A i \in 1..Len(hotels[h].reserved_rooms) :
            \A j \in 1..Len(hotels[h].reserved_rooms) :
                i # j => hotels[h].reserved_rooms[i] # hotels[h].reserved_rooms[j]

\* C3 witness: a reserve_room or a cancel_room has just succeeded on a hotel
\* that holds two reserved rooms or more.
C3_Witness ==
    /\ last.op \in {"reserve_room", "cancel_room"}
    /\ last.result = "True"
    /\ last.args[1] \in DOMAIN hotels
    /\ Len(hotels[last.args[1]].reserved_rooms) >= 2

\* C4: every reservation record references a customer identifier that is in
\* the customer collection.
C4_ReservationsHaveCustomers ==
    \A r \in DOMAIN reservations :
        reservations[r].customer_id \in DOMAIN customers

\* C5: create_reservation with a customer identifier absent from the customer
\* collection returns False and leaves the hotels, the customers, the
\* reservations and the documents unchanged.
C5_UnknownCustomerRefused ==
    [][\A r \in ReservationIds, c \in CustomerIds, h \in HotelIds, n \in RoomNumbers :
          (CreateReservation(r, c, h, n) /\ c \notin DOMAIN customers) =>
              /\ last'.result = "False"
              /\ UNCHANGED <<hotels, customers, reservations, disk>>]_vars

\* C5 witness: create_reservation has returned False for a customer that is
\* not in the collection, asking for a free room within the hotel's count.
C5_Witness ==
    /\ last.op = "create_reservation"
    /\ last.result = "False"
    /\ last.args[2] \notin DOMAIN customers
    /\ last.args[3] \in DOMAIN hotels
    /\ ~Reserved(last.args[3], last.args[4])
    /\ last.args[4] <= hotels[last.args[3]].rooms

\* C6: when the customer exists and the room cannot be allocated (hotel
\* unknown, room already in the reserved list, or room number above the room
\* count), create_reservation returns False and the three collections are
\* unchanged, a record stored under the same identifier included.
C6_FailedAllocationChangesNothing ==
    [][\A r \in ReservationIds, c \in CustomerIds, h \in HotelIds, n \in RoomNumbers :
          (/\ CreateReservation(r, c, h, n)
           /\ c \in DOMAIN customers
           /\ \/ h \notin DOMAIN hotels
              \/ Reserved(h, n)
              \/ n > hotels[h].rooms) =>
              /\ last'.result = "False"
              /\ UNCHANGED Collections]_vars

\* C6 witness: create_reservation has returned False for a known customer and
\* a room that is already reserved, under an identifier that holds a record.
C6_Witness ==
    /\ last.op = "create_reservation"
    /\ last.result = "False"
    /\ last.args[2] \in DOMAIN customers
    /\ Reserved(last.args[3], last.args[4])
    /\ last.args[1] \in DOMAIN reservations

\* C7: cancel_reservation(id) of a stored reservation returns True, and right
\* after it the referenced hotel's reserved list does not contain the booked
\* room and the reservation collection does not contain id.
C7_CancelUndoesCreate ==
    [][\A r \in ReservationIds :
          (CancelReservation(r) /\ r \in DOMAIN reservations) =>
              /\ last'.result = "True"
              /\ r \notin DOMAIN reservations'
              /\ reservations[r].hotel_id \in DOMAIN hotels' =>
                    ~list_contains(hotels'[reservations[r].hotel_id].reserved_rooms,
                                   reservations[r].room_number)]_vars

\* C7 witness: cancel_reservation has returned True while its hotel exists
\* and keeps another room reserved.
C7_Witness ==
    /\ last.op = "cancel_reservation"
    /\ last.result = "True"
    /\ \E h \in DOMAIN hotels : Len(hotels[h].reserved_rooms) >= 1

\* C8: reserve_room(H, n) with n already in H's reserved list returns False
\* and leaves the list unchanged; so does a reserve_room(H, n) that follows a
\* successful reserve_room(H, n).
C8_NoSecondReserve ==
    [][\A h \in HotelIds, n \in RoomNumbers :
          /\ (ReserveRoom(h, n) /\ Reserved(h, n)) =>
                /\ last'.result = "False"
                /\ hotels'[h].reserved_rooms = hotels[h].reserved_rooms
          /\ (/\ ReserveRoom(h, n)
              /\ last.op = "reserve_room"
              /\ last.result = "True"
              /\ last.args = <<h, n>>) =>
                /\ last'.result = "False"
                /\ hotels' = hotels]_vars

\* C8 witness: reserve_room has returned False for a room that is in the
\* hotel's reserved list and within its room count.
C8_Witness ==
    /\ last.op = "reserve_room"
    /\ last.result = "False"
    /\ Reserved(last.args[1], last.args[2])
    /\ last.args[2] <= hotels[last.args[1]].rooms

\* C9: cancel_room(H, n) right after a successful reserve_room(H, n) returns
\* True and gives H's reserved list the content it had before the
\* reservation; cancel_room for a room that is not in the reserved list, or
\* for an unknown hotel, returns False and changes nothing.
C9_CancelRoomUndoesReserve ==
    [][\A h \in HotelIds, n \in RoomNumbers :
          /\ (/\ CancelRoom(h, n)
              /\ last.op = "reserve_room"
              /\ last.result = "True"
              /\ last.args = <<h, n>>) =>
                /\ last'.result = "True"
                /\ hotels'[h].reserved_rooms = undo
                /\ ~list_contains(hotels'[h].reserved_rooms, n)
          /\ (CancelRoom(h, n) /\ ~Reserved(h, n)) =>
                /\ last'.result = "False"
                /\ UNCHANGED <<hotels, customers, reservations, disk>>]_vars

\* C9 witness: cancel_room has returned True and left a reserved list that
\* still holds a room, the cancelled room not among them.
C9_Witness ==
    /\ last.op = "cancel_room"
    /\ last.result = "True"
    /\ last.args[1] \in DOMAIN hotels
    /\ Len(hotels[last.args[1]].reserved_rooms) >= 1
    /\ ~Reserved(last.args[1], last.args[2])

\* C10: saving the three collections and loading them into a fresh Storage
\* gives collections with the same identifiers and the same field values.
C10_RoundTrip ==
    LET fresh == Storage(save_all(Store).disk)
    IN  /\ fresh.hotels = hotels
        /\ fresh.customers = customers
        /\ fresh.reservations = reservations

\* C10 witness: a hotel with two reserved rooms, a customer and a reservation
\* are in the store.
C10_Witness ==
    /\ \E h \in DOMAIN hotels : Len(hotels[h].reserved_rooms) >= 2
    /\ DOMAIN customers # {}
    /\ DOMAIN reservations # {}

\* the collection that is loaded from document f, and its document form
CollectionOf(f) ==
    IF f = HOTELS_FILE THEN hotels
    ELSE IF f = CUSTOMERS_FILE THEN customers
    ELSE reservations

DocumentOf(f) ==
    IF f = HOTELS_FILE THEN [k \in DOMAIN hotels |-> Hotel_to_dict(hotels[k])]
    ELSE IF f = CUSTOMERS_FILE THEN [k \in DOMAIN customers |-> Customer_to_dict(customers[k])]
    ELSE [k \in DOMAIN reservations |-> Reservation_to_dict(reservations[k])]

NotInExpectedForm(d, f) ==
    \/ d[f].state # "json"
    \/ f = HOTELS_FILE /\ _load_hotels_raises(d)
    \/ f = CUSTOMERS_FILE /\ _load_customers_raises(d)
    \/ f = RESERVATIONS_FILE /\ _load_reservations_raises(d)

\* C14: Storage() never raises; a document that is missing, unparseable, or
\* parseable but not in the expected form gives an empty collection.
C14_LoadNeverRaises ==
    [][NewStorage =>
          /\ last'.result # "Raised"
          /\ \A f \in Files :
                NotInExpectedForm(disk, f) => CollectionOf(f)' = EmptyDict]_vars

\* C12: with one Storage and writes that succeed, after every call the three
\* documents hold the content of the three collections, and the documents
\* are written together: one exists only when all three do.
C12_DocumentsFollowMemory ==
    /\ \A f \in Files : load_json(disk, f) = DocumentOf(f)
    /\ (\E f \in Files : disk[f].state # "missing") =>
            \A f \in Files : disk[f].state = "json"

\* C12 witness: create_reservation has returned True, so that the three
\* collections and the three documents hold an entry each.
C12_Witness ==
    /\ last.op = "create_reservation"
    /\ last.result = "True"
    /\ \A f \in Files : DOMAIN CollectionOf(f) # {} /\ DOMAIN disk[f].value # {}

\* C13: a stored reservation record keeps its customer identifier, hotel
\* identifier and room number through every step that is not a successful
\* cancel_reservation of its identifier, further create_reservation calls
\* included.
C13_ReservationImmutable ==
    [][\A r \in ReservationIds :
          (/\ r \in DOMAIN reservations
           /\ ~(CancelReservation(r) /\ last'.result = "True")) =>
              /\ r \in DOMAIN reservations'
              /\ reservations'[r] = reservations[r]]_vars

\* C13 (amended): a stored reservation record stays stored and keeps its
\* fields through every step that is neither a successful cancel_reservation
\* of its identifier nor a successful create_reservation with its identifier,
\* and the latter replaces it with the record it was given.
C13_ReservationChangesOnlyByOverwrite ==
    [][\A r \in ReservationIds :
          (/\ r \in DOMAIN reservations
           /\ ~(CancelReservation(r) /\ last'.result = "True")) =>
              /\ r \in DOMAIN reservations'
              /\ \/ reservations'[r] = reservations[r]
                 \/ \E c \in CustomerIds, h \in HotelIds, n \in RoomNumbers :
                       /\ CreateReservation(r, c, h, n)
                       /\ last'.result = "True"
                       /\ reservations'[r] = Reservation(r, c, h, n)]_vars

\* C13 witness: create_reservation has returned True for one identifier while
\* a record with another identifier, for another room, is stored.
C13_Witness ==
    /\ last.op = "create_reservation"
    /\ last.result = "True"
    /\ \E r \in DOMAIN reservations :
          /\ r # last.args[1]
          /\ reservations[r].room_number # last.args[4]

\* C15: create_hotel(h) raises nothing; afterwards h is stored under its
\* identifier with its own name, room count and (empty) reserved list, the
\* other hotels are as they were, and so are customers and reservations.
C15_CreateHotel ==
    [][\A h \in TwoHotelIds, n \in HotelNames, r \in RoomCounts :
          CreateHotel(h, n, r) =>
              /\ last'.result = "None"
              /\ DOMAIN hotels' = DOMAIN hotels \cup {h}
              /\ hotels'[h] = [hotel_id |-> h, name |-> n, rooms |-> r,
                               reserved_rooms |-> <<>>]
              /\ \A g \in DOMAIN hotels \ {h} : hotels'[g] = hotels[g]
              /\ customers' = customers
              /\ reservations' = reservations]_vars

\* C15 witness: create_hotel has stored a hotel with an empty reserved list
\* under an identifier that a reservation references, while the other hotel
\* holds reserved rooms.
C15_Witness ==
    /\ last.op = "create_hotel"
    /\ hotels[last.args[1]].reserved_rooms = <<>>
    /\ \E r \in DOMAIN reservations : reservations[r].hotel_id = last.args[1]
    /\ \E g \in DOMAIN hotels \ {last.args[1]} : hotels[g].reserved_rooms # <<>>
    /\ DOMAIN customers # {}

\* C16: modify_hotel(id, name, rooms) of a stored hotel sets its name and room
\* count and changes nothing else in the three collections; of an unknown
\* identifier it changes no collection and no document.
C16_ModifyHotel ==
    [][\A h \in TwoHotelIds, n \in HotelNames, r \in RoomCounts :
          ModifyHotel(h, n, r) =>
              IF h \in DOMAIN hotels
              THEN /\ DOMAIN hotels' = DOMAIN hotels
                   /\ hotels'[h] = [hotel_id |-> h, name |-> n, rooms |-> r,
                                    reserved_rooms |-> hotels[h].reserved_rooms]
                   /\ \A g \in DOMAIN hotels \ {h} : hotels'[g] = hotels[g]
                   /\ customers' = customers
                   /\ reservations' = reservations
              ELSE UNCHANGED <<hotels, customers, reservations, disk>>]_vars

\* C16 witness: modify_hotel has renamed a hotel that holds reserved rooms,
\* while the other hotel, a customer and a reservation are stored.
C16_Witness ==
    /\ last.op = "modify_hotel"
    /\ last.args[1] \in DOMAIN hotels
    /\ hotels[last.args[1]].name = "Updated"
    /\ hotels[last.args[1]].reserved_rooms # <<>>
    /\ \E g \in DOMAIN hotels \ {last.args[1]} :
          hotels[g].name = "Test Hotel" /\ hotels[g].reserved_rooms # <<>>
    /\ DOMAIN customers # {}
    /\ DOMAIN reservations # {}

\* C17: reserve_room(hotel_id, n) returns True exactly when the hotel is
\* stored, n is not in its reserved list and n is not above its room count
\* (n <= 0 included); then n is appended to the list and the three documents
\* hold the collections; otherwise it returns False and neither a collection
\* nor a document changes.
C17_ReserveRoom ==
    [][\A h \in HotelIds, n \in RoomArguments :
          ReserveRoom(h, n) =>
              IF /\ h \in DOMAIN hotels
                 /\ \A i \in 1..Len(hotels[h].reserved_rooms) :
                       hotels[h].reserved_rooms[i] # n
                 /\ n <= hotels[h].rooms
              THEN /\ last'.result = "True"
                   /\ hotels' = [hotels EXCEPT ![h].reserved_rooms = Append(@, n)]
                   /\ customers' = customers
                   /\ reservations' = reservations
                   /\ \A f \in Files :
                         /\ disk'[f].state = "json"
                         /\ disk'[f].value = DocumentOf(f)'
              ELSE /\ last'.result = "False"
                   /\ UNCHANGED <<hotels, customers, reservations, disk>>]_vars

\* C17 witness: reserve_room has returned True for a room number below 1,
\* which is now in the reserved list.
C17_Witness ==
    /\ last.op = "reserve_room"
    /\ last.result = "True"
    /\ last.args[2] <= 0
    /\ Reserved(last.args[1], last.args[2])

\* C18: cancel_reservation of an identifier that is not stored returns False
\* and changes neither a collection nor a document; of a stored identifier it
\* returns True and the record is gone, also when cancel_room has failed.
C18_CancelReservation ==
    [][\A r \in ReservationIds :
          CancelReservation(r) =>
              IF r \notin DOMAIN reservations
              THEN /\ last'.result = "False"
                   /\ UNCHANGED <<hotels, customers, reservations, disk>>
              ELSE /\ last'.result = "True"
                   /\ r \notin DOMAIN reservations'
                   /\ \A q \in DOMAIN reservations \ {r} :
                         /\ q \in DOMAIN reservations'
                         /\ reservations'[q] = reservations[q]]_vars

\* C18 witness: cancel_reservation has returned True although no hotel is
\* stored, so that cancel_room has returned False inside it.
C18_Witness ==
    /\ last.op = "cancel_reservation"
    /\ last.result = "True"
    /\ DOMAIN hotels = {}
    /\ DOMAIN reservations # {}

\* C19: every stored reservation names a stored hotel whose reserved list
\* holds the reservation's room number.
C19_ReservationsHoldTheirRoom ==
    \A r \in DOMAIN reservations :
        /\ reservations[r].hotel_id \in DOMAIN hotels
        /\ list_contains(hotels[reservations[r].hotel_id].reserved_rooms,
                         reservations[r].room_number)

\* how many times room_number is in the list
Occurrences(list, room_number) ==
    Cardinality({i \in 1..Len(list) : list[i] = room_number})

\* C20: when two reserve_room calls for the same stored hotel and the same
\* free room within the room count have both made their check before either
\* has appended, neither returns False, and once both have returned, both
\* have returned True and the room number is twice in the reserved list.
C20_RaceDoubleBooks ==
    \A t \in Threads : \A u \in Threads \ {t} :
        (/\ calls[t].pc \in {"append", "save", "return", "done"}
         /\ calls[u].pc \in {"append", "save", "return", "done"}
         /\ calls[t].hotel_id = calls[u].hotel_id
         /\ calls[t].room_number = calls[u].room_number
         /\ calls[t].free /\ calls[u].free
         /\ ~calls[t].late /\ ~calls[u].late) =>
            /\ calls[t].result # "False"
            /\ (calls[t].pc = "done" /\ calls[u].pc = "done") =>
                  /\ calls[t].result = "True" /\ calls[u].result = "True"
                  /\ Occurrences(hotels[calls[t].hotel_id].reserved_rooms,
                                 calls[t].room_number) = 2

\* C20 witness: both calls, for the same room, made their check before the
\* other's append and have returned True.
C20_Witness ==
    /\ \A t \in Threads :
          calls[t].pc = "done" /\ calls[t].result = "True" /\ calls[t].free /\ ~calls[t].late
    /\ calls[1].hotel_id = calls[2].hotel_id
    /\ calls[1].room_number = calls[2].room_number

\* room_number is in the reserved list that the hotels document holds for hotel_id
DocumentReserves(hotel_id, room_number) ==
    LET raw == load_json(disk, HOTELS_FILE)
    IN  /\ hotel_id \in DOMAIN raw
        /\ list_contains(raw[hotel_id].reserved_rooms, room_number)

\* the reservations document holds the record
DocumentRecords(reservation) ==
    LET raw == load_json(disk, RESERVATIONS_FILE)
    IN  /\ reservation.reservation_id \in DOMAIN raw
        /\ raw[reservation.reservation_id] = Reservation_to_dict(reservation)

\* C21: while a create_reservation that has reserved its room, or a
\* cancel_reservation that has released its room, has not yet changed the
\* reservation collection, the documents do not hold the room change without
\* the change of the record.
C21_MutationsBeforeWrites ==
    /\ (pending.op = "create_reservation") =>
          ~(/\ DocumentReserves(pending.reservation.hotel_id,
                                pending.reservation.room_number)
            /\ ~DocumentRecords(pending.reservation))
    /\ (pending.op = "cancel_reservation" /\ pending.room = "True") =>
          ~(/\ ~DocumentReserves(pending.reservation.hotel_id,
                                 pending.reservation.room_number)
            /\ DocumentRecords(pending.reservation))

\* the store in memory, over documents of which every write succeeds
Writable == [Store EXCEPT !.disk = [f \in Files |-> MissingFile]]

\* the call has returned what `out` returns and left the collections of `out`
SameOutcome(out) ==
    /\ last'.result = out.result
    /\ hotels' = out.st.hotels
    /\ customers' = out.st.customers
    /\ reservations' = out.st.reservations

\* C22: whichever writes fail, every mutating operation returns what it
\* returns when all its writes succeed, raises nothing, and leaves the
\* collections that it leaves then.
C22_WriteFailureNotPropagated ==
    [][/\ \A h \in HotelIds, n \in HotelNames, r \in RoomCounts :
             /\ CreateHotel(h, n, r) => SameOutcome(create_hotel(Writable, Hotel(h, n, r)))
             /\ ModifyHotel(h, n, r) => SameOutcome(modify_hotel(Writable, h, n, r))
       /\ \A h \in HotelIds :
             DeleteHotel(h) => SameOutcome(delete_hotel(Writable, h))
       /\ \A h \in HotelIds, n \in TwoHotelRooms :
             /\ ReserveRoom(h, n) => SameOutcome(reserve_room(Writable, h, n))
             /\ CancelRoom(h, n) => SameOutcome(cancel_room(Writable, h, n))
       /\ \A c \in CustomerIds, n \in CustomerNames, e \in Emails :
             /\ CreateCustomer(c, n, e) =>
                   SameOutcome(create_customer(Writable, Customer(c, n, e)))
             /\ ModifyCustomer(c, n, e) => SameOutcome(modify_customer(Writable, c, n, e))
       /\ \A c \in CustomerIds :
             DeleteCustomer(c) => SameOutcome(delete_customer(Writable, c))
       /\ \A r \in ReservationIds, c \in CustomerIds, h \in HotelIds, n \in TwoHotelRooms :
             CreateReservation(r, c, h, n) =>
                 SameOutcome(create_reservation(Writable, Reservation(r, c, h, n)))
       /\ \A r \in ReservationIds :
             CancelReservation(r) => SameOutcome(cancel_reservation(Writable, r))
       /\ last'.result # "Raised"]_vars

\* C22 witness: create_reservation has returned True while the hotels
\* document cannot be written, and that document does not hold the hotels
\* in memory.
C22_Witness ==
    /\ last.op = "create_reservation"
    /\ last.result = "True"
    /\ disk[HOTELS_FILE].state = "directory"
    /\ load_json(disk, HOTELS_FILE) # DocumentOf(HOTELS_FILE)
    /\ load_json(disk, RESERVATIONS_FILE) = DocumentOf(RESERVATIONS_FILE)

\* C23: delete_hotel(id) raises nothing, leaves no hotel under id, leaves the
\* other hotels, the customers and the reservations (those of the deleted
\* hotel too) as they were, and writes the three documents whether or not a
\* hotel was stored under id.
C23_DeleteHotel ==
    [][\A h \in TwoHotelIds :
          DeleteHotel(h) =>
              /\ last'.result = "None"
              /\ DOMAIN hotels' = DOMAIN hotels \ {h}
              /\ \A g \in DOMAIN hotels \ {h} : hotels'[g] = hotels[g]
              /\ customers' = customers
              /\ reservations' = reservations
              /\ \A f \in Files :
                    /\ disk'[f].state = "json"
                    /\ disk'[f].value = DocumentOf(f)']_vars

\* C23 witness: delete_hotel has removed a hotel that a stored reservation
\* references, while the other hotel holds reserved rooms.
C23_Witness ==
    /\ last.op = "delete_hotel"
    /\ last.args[1] \notin DOMAIN hotels
    /\ \E r \in DOMAIN reservations : reservations[r].hotel_id = last.args[1]
    /\ \E g \in DOMAIN hotels : hotels[g].reserved_rooms # <<>>
    /\ DOMAIN customers # {}

\* C24: from hotels with no room reserved and no reservation, through
\* create_reservation and cancel_reservation calls alone, a room number is in
\* a hotel's reserved list exactly when a stored reservation references that
\* hotel and room.
C24_ReservedIffReferenced ==
    \A h \in DOMAIN hotels : \A n \in RoomNumbers :
        list_contains(hotels[h].reserved_rooms, n) <=>
            \E r \in DOMAIN reservations :
                /\ reservations[r].hotel_id = h
                /\ reservations[r].room_number = n

====
